---------------------------- MODULE Spec2Model ----------------------------
(***************************************************************************)
(* Model of scripts/validate-circular-dependencies.py: the assembly        *)
(* dependency validator.  One run of main() is a state machine: the        *)
(* manifests found on disk are parsed and turned into the dependency       *)
(* graph, the recursive depth-first search for a cycle is unrolled into    *)
(* one step per call, per examined edge and per return, and the shared     *)
(* namespace isolation check and the exit code follow.                     *)
(*                                                                         *)
(* A module name is a sequence of text chunks, so that the substring       *)
(* tests of the isolation check ('Shared' in name, 'Unity.' in name) are   *)
(* computed on the name and not assumed.  Python dicts are sequences of    *)
(* key/value records in insertion order, lists are sequences, sets are     *)
(* sets, None is a value of its own.                                       *)
(***************************************************************************)
EXTENDS Naturals, Sequences, FiniteSets

VARIABLES
    files,        \* the manifests, in the order find_asmdef_files lists them
    pc,           \* position of main()
    assemblies,   \* dict name -> parsed manifest, in insertion order
    graph,        \* defaultdict(list) name -> [ref], in insertion order
    visited,      \* detect_circular_dependencies: visited
    rec_stack,    \* the rec_stack set of the current top-level dfs call
    stack,        \* the live dfs calls, outermost first: node, path, position
    next_key,     \* position of "for node in graph"
    starts,       \* history: the nodes the top-level dfs calls were started from
    cycle,        \* result of detect_circular_dependencies
    violations,   \* result of validate_shared_namespace_isolation
    stages,       \* history: the functions main() has called, in order
    exit_code,    \* value handed to sys.exit, NoExit while running
    earlier,      \* history: what the runs before this one ended with
    other,        \* the locals of a second run of main() while this one executes
    explored,     \* history: the nodes dfs was called on, in the order of the calls
    report        \* the lines "name (n dependencies)" main() has printed

vars == <<report, explored, other, earlier, files, pc, assemblies, graph, visited,
          rec_stack, stack, next_key, starts, cycle, violations, stages, exit_code>>

-----------------------------------------------------------------------------
(* Bounds of the explored inputs *)

MaxFiles == 3

MaxRefs == 2

-----------------------------------------------------------------------------
(* Module names *)

A == <<"A">>

B == <<"B">>

C == <<"C">>

X == <<"X">>

SharedCore == <<"Shared", "Core">>

SharedUi == <<"Shared", "Ui">>

FeatureLogin == <<"Feature", "Login">>

UnityMath == <<"Unity.", "Mathematics">>

UnityShared == <<"Unity.", "Shared">>

VendorUnity == <<"Vendor.", "Unity.", "Tools">>

EmptyName == <<>>

\* The name universes the inputs are drawn from.  X is declared by no
\* manifest of a universe that lists it among the references only.
GraphNames == {A, B, C}

PolicyNames == {SharedCore, SharedUi, FeatureLogin}

PlatformNames == {SharedCore, UnityMath, FeatureLogin}

MarkerNames == {SharedCore, UnityShared, VendorUnity}

MixedNames == {UnityShared, UnityMath, FeatureLogin}

NameSets == {GraphNames, PolicyNames, PlatformNames, MarkerNames, MixedNames}

-----------------------------------------------------------------------------
(* Python values *)

\* parse_asmdef's None
None == [none |-> TRUE]

\* dfs and detect_circular_dependencies return a non-empty list or None and
\* every caller only tests the truth of the result: None is the empty path.
NoCycle == <<>>

\* exit_code while main() has not returned
NoExit == 2

Range(s) == {s[i] : i \in 1..Len(s)}

SeqsUpTo(S, n) == UNION {[1..k -> S] : k \in 0..n}

\* list.index(x): position of the first occurrence, 0 when list.index raises
IndexOf(s, x) ==
    IF x \in Range(s) THEN CHOOSE i \in 1..Len(s) : s[i] = x /\ \A j \in 1..(i-1) : s[j] # x
    ELSE 0

Tail_from_OffByOne(s, i) == SubSeq(s, i + 1, Len(s))

\* s[i:] with the 1-based position i
Tail_from(s, i) == SubSeq(s, i, Len(s))

\* dict: position of key k among the entries, 0 when absent
KeyPos(d, k) ==
    IF \E i \in 1..Len(d) : d[i].key = k THEN CHOOSE i \in 1..Len(d) : d[i].key = k ELSE 0

Keys(d) == {d[i].key : i \in 1..Len(d)}

\* d[k] = v: a new key goes last, an existing key keeps its position
DictSet(d, k, v) ==
    IF KeyPos(d, k) = 0 THEN Append(d, [key |-> k, val |-> v])
    ELSE [d EXCEPT ![KeyPos(d, k)] = [key |-> k, val |-> v]]

\* d.get(k, [])
DictGet(d, k) == IF KeyPos(d, k) = 0 THEN <<>> ELSE d[KeyPos(d, k)].val

\* 'chunk' in name
Contains(name, chunk) == \E i \in 1..Len(name) : name[i] = chunk

\* ascending order of the names as Python strings
SortedNames ==
    <<EmptyName, A, B, C, FeatureLogin, SharedCore, SharedUi, UnityMath, UnityShared,
      VendorUnity, X>>

\* sorted(S) for a set S of names
sorted(S) == SelectSeq(SortedNames, LAMBDA n : n \in S)

-----------------------------------------------------------------------------
(* Manifest files and parse_asmdef *)

\* A file on disk: json = FALSE when json.load (or data.get) raises; the
\* "name" key may be absent; "references" is absent, null or a list.
File(json, has_name, name, refs_tag, refs) ==
    [json |-> json, has_name |-> has_name, name |-> name, refs_tag |-> refs_tag, refs |-> refs]

Manifest(name, refs) == File(TRUE, TRUE, name, "list", refs)

Malformed == File(FALSE, FALSE, EmptyName, "absent", <<>>)

parse_asmdef_RequiresName(f) ==
    IF ~f.json \/ ~f.has_name THEN None
    ELSE [none |-> FALSE,
          name |-> f.name,
          references |-> IF f.refs_tag = "list" THEN f.refs ELSE <<>>,
          references_none |-> f.refs_tag = "null"]

parse_asmdef_DefaultOnError(f) ==
    IF ~f.json
    THEN [none |-> FALSE, name |-> EmptyName, references |-> <<>>, references_none |-> FALSE]
    ELSE [none |-> FALSE,
          name |-> IF f.has_name THEN f.name ELSE EmptyName,
          references |-> IF f.refs_tag = "list" THEN f.refs ELSE <<>>,
          references_none |-> f.refs_tag = "null"]

\* parse_asmdef: None on any exception, else name (default '') and
\* references (default [], an explicit null stays None).
parse_asmdef(f) ==
    IF ~f.json THEN None
    ELSE [none |-> FALSE,
          name |-> IF f.has_name THEN f.name ELSE EmptyName,
          references |-> IF f.refs_tag = "list" THEN f.refs ELSE <<>>,
          references_none |-> f.refs_tag = "null"]

-----------------------------------------------------------------------------
(* build_dependency_graph *)

RECURSIVE CollectAssemblies_FirstWins(_, _)
CollectAssemblies_FirstWins(fs, acc) ==
    IF fs = <<>> THEN acc
    ELSE LET asmdef == parse_asmdef(Head(fs))
         IN  CollectAssemblies_FirstWins(Tail(fs),
                 IF asmdef.none \/ asmdef.name \in Keys(acc) THEN acc
                 ELSE DictSet(acc, asmdef.name, asmdef))

\* First pass: assemblies[asmdef['name']] = asmdef for every parsed file
RECURSIVE CollectAssemblies(_, _)
CollectAssemblies(fs, acc) ==
    IF fs = <<>> THEN acc
    ELSE LET asmdef == parse_asmdef(Head(fs))
         IN  CollectAssemblies(Tail(fs),
                 IF asmdef.none THEN acc ELSE DictSet(acc, asmdef.name, asmdef))

IsInternal_Unfiltered(asm, ref) == TRUE

\* "if ref in assemblies"
IsInternal(asm, ref) == ref \in Keys(asm)

RECURSIVE AppendRefs_Dedup(_, _, _, _)
AppendRefs_Dedup(g, asm, name, refs) ==
    IF refs = <<>> THEN g
    ELSE AppendRefs_Dedup(IF IsInternal(asm, Head(refs)) /\ Head(refs) \notin Range(DictGet(g, name))
                          THEN DictSet(g, name, Append(DictGet(g, name), Head(refs)))
                          ELSE g,
                          asm, name, Tail(refs))

RECURSIVE AppendRefs_CreatingKey(_, _, _, _)
AppendRefs_CreatingKey(g, asm, name, refs) ==
    IF refs = <<>> THEN (IF KeyPos(g, name) = 0 THEN DictSet(g, name, <<>>) ELSE g)
    ELSE AppendRefs_CreatingKey(IF IsInternal(asm, Head(refs))
                                THEN DictSet(g, name, Append(DictGet(g, name), Head(refs)))
                                ELSE g,
                                asm, name, Tail(refs))

\* Inner loop of the second pass: graph[name].append(ref) for internal refs
RECURSIVE AppendRefs(_, _, _, _)
AppendRefs(g, asm, name, refs) ==
    IF refs = <<>> THEN g
    ELSE AppendRefs(IF IsInternal(asm, Head(refs))
                    THEN DictSet(g, name, Append(DictGet(g, name), Head(refs)))
                    ELSE g,
                    asm, name, Tail(refs))

RECURSIVE BuildEdges_NoSelfEdge(_, _, _)
BuildEdges_NoSelfEdge(asm, i, g) ==
    IF i > Len(asm) THEN g
    ELSE BuildEdges_NoSelfEdge(asm, i + 1,
             AppendRefs(g, asm, asm[i].key,
                        SelectSeq(asm[i].val.references, LAMBDA r : r # asm[i].key)))

\* Second pass: for name, asmdef in assemblies.items()
RECURSIVE BuildEdges(_, _, _)
BuildEdges(asm, i, g) ==
    IF i > Len(asm) THEN g
    ELSE BuildEdges(asm, i + 1, AppendRefs(g, asm, asm[i].key, asm[i].val.references))

\* "for ref in asmdef['references']" raises TypeError on None
BuildRaises(asm) == \E i \in 1..Len(asm) : asm[i].val.references_none

-----------------------------------------------------------------------------
(* validate_shared_namespace_isolation *)

IsShared_UnlessPlatform(name) == Contains(name, "Shared") /\ ~Contains(name, "Unity.")

\* 'Shared' in name
IsShared(name) == Contains(name, "Shared")

IsFeature_PrefixOnly(name) ==
    ~(Contains(name, "Shared") \/ (Len(name) >= 1 /\ name[1] = "Unity."))

IsFeature(name) == ~(Contains(name, "Shared") \/ Contains(name, "Unity."))

\* "for name in assemblies": the keys in dict order
KeySeq(d) == [i \in 1..Len(d) |-> d[i].key]

shared_assemblies(asm) == SelectSeq(KeySeq(asm), IsShared)

feature_assemblies(asm) == SelectSeq(KeySeq(asm), IsFeature)

RECURSIVE RefViolations_FirstOnly(_, _, _)
RefViolations_FirstOnly(shared, refs, features) ==
    IF refs = <<>> THEN <<>>
    ELSE IF Head(refs) \in Range(features) THEN <<(<<shared, Head(refs)>>)>>
    ELSE RefViolations_FirstOnly(shared, Tail(refs), features)

\* Inner loop: one violation per ref that is in feature_assemblies
RECURSIVE RefViolations(_, _, _)
RefViolations(shared, refs, features) ==
    IF refs = <<>> THEN <<>>
    ELSE (IF Head(refs) \in Range(features) THEN <<(<<shared, Head(refs)>>)>> ELSE <<>>)
         \o RefViolations(shared, Tail(refs), features)

\* Outer loop: for shared in shared_assemblies
RECURSIVE SharedViolations(_, _, _)
SharedViolations(g, shareds, features) ==
    IF shareds = <<>> THEN <<>>
    ELSE RefViolations(Head(shareds), DictGet(g, Head(shareds)), features)
         \o SharedViolations(g, Tail(shareds), features)

validate_shared_namespace_isolation(g, asm) ==
    SharedViolations(g, shared_assemblies(asm), feature_assemblies(asm))

-----------------------------------------------------------------------------
(* Inputs *)

\* Manifests with pairwise distinct names of NS that reference names of NS
DistinctInputs(NS) ==
    LET Ms == {Manifest(n, r) : n \in NS, r \in SeqsUpTo(NS, MaxRefs)}
    IN  {fs \in SeqsUpTo(Ms, MaxFiles) :
            \A i, j \in 1..Len(fs) : fs[i].name = fs[j].name => i = j}

\* Files that repeat names, reference the undeclared X, fail to parse, lack
\* the name or carry absent or null references
FaultFiles ==
    {Manifest(n, r) : n \in {A, B}, r \in SeqsUpTo({A, X}, MaxRefs)}
    \cup {Malformed}
    \cup {File(TRUE, FALSE, EmptyName, "list", r) : r \in {<<>>, <<A>>}}
    \cup {File(TRUE, TRUE, n, t, <<>>) : n \in {A, B}, t \in {"absent", "null"}}

FaultInputs == SeqsUpTo(FaultFiles, MaxFiles)

Inputs == (UNION {DistinctInputs(NS) : NS \in NameSets}) \cup FaultInputs

Init ==
    /\ files \in Inputs
    /\ pc = "Start"
    /\ assemblies = <<>>
    /\ graph = <<>>
    /\ visited = {}
    /\ rec_stack = {}
    /\ stack = <<>>
    /\ next_key = 1
    /\ starts = <<>>
    /\ cycle = NoCycle
    /\ violations = <<>>
    /\ stages = <<>>
    /\ exit_code = NoExit
    /\ earlier = <<>>
    /\ other = <<>>
    /\ explored = <<>>
    /\ report = <<>>

-----------------------------------------------------------------------------
(* main(): build_dependency_graph *)

\* for name in sorted(assemblies.keys()): the name and len(graph.get(name, []))
Discovered(g, asm) ==
    [i \in 1..Len(sorted(Keys(asm))) |->
        <<sorted(Keys(asm))[i], Len(DictGet(g, sorted(Keys(asm))[i]))>>]

\* graph, assemblies = build_dependency_graph(asmdef_files), and the list of
\* the discovered assemblies that main() prints next
BuildGraph ==
    /\ pc = "Start"
    /\ ~BuildRaises(CollectAssemblies(files, <<>>))
    /\ assemblies' = CollectAssemblies(files, <<>>)
    /\ graph' = BuildEdges(assemblies', 1, <<>>)
    /\ report' = Discovered(graph', assemblies')
    /\ stages' = Append(stages, "build_dependency_graph")
    /\ pc' = "GraphBuilt"
    /\ UNCHANGED <<explored, other, earlier, files, visited, rec_stack, stack,
                   next_key, starts, cycle, violations, exit_code>>

\* The second pass iterates a None: the TypeError leaves main() uncaught,
\* graph and assemblies are never bound and the interpreter exits with 1.
BuildGraphRaises ==
    /\ pc = "Start"
    /\ BuildRaises(CollectAssemblies(files, <<>>))
    /\ stages' = Append(stages, "build_dependency_graph")
    /\ pc' = "Raised"
    /\ exit_code' = 1
    /\ UNCHANGED <<report, explored, other, earlier, files, assemblies, graph, visited,
                   rec_stack, stack, next_key, starts, cycle, violations>>

-----------------------------------------------------------------------------
(* detect_circular_dependencies *)

OnRecStack_AnyVisited(neighbor, rs) == TRUE

\* "elif neighbor in rec_stack"
OnRecStack(neighbor, rs) == neighbor \in rs

CyclePath_WholePath(path, neighbor) == path \o <<neighbor>>

CyclePath_NotClosed(path, neighbor) == Tail_from(path, IndexOf(path, neighbor))

\* path[cycle_start:] + [neighbor]
CyclePath(path, neighbor) == Tail_from(path, IndexOf(path, neighbor)) \o <<neighbor>>

Frame(node, path) == [node |-> node, path |-> path, pos |-> 1]

Top == stack[Len(stack)]

\* graph.get(node, []) of the running dfs call
Neighbors == DictGet(graph, Top.node)

Neighbor_LastFirst == Neighbors[Len(Neighbors) + 1 - Top.pos]

\* the neighbor the running dfs call examines next
Neighbor == Neighbors[Top.pos]

Advance_Stuck(st) == st

\* the for loop of the running dfs call moves on to the next neighbor
Advance(st) == [st EXCEPT ![Len(st)].pos = @ + 1]

KeyAt_Reversed(g, i) == g[Len(g) + 1 - i].key

\* "for node in graph": the i-th key in insertion order
KeyAt(g, i) == g[i].key

DetectStart_BeforeBuild ==
    /\ pc \in {"Start", "GraphBuilt"}
    /\ visited' = {}
    /\ next_key' = 1
    /\ stages' = Append(stages, "detect_circular_dependencies")
    /\ pc' = "Detecting"
    /\ UNCHANGED <<report, explored, other, earlier, files, assemblies, graph, rec_stack,
                   stack, starts, cycle, violations, exit_code>>

DetectStart_KeepVisited ==
    /\ pc = "GraphBuilt"
    /\ next_key' = 1
    /\ stages' = Append(stages, "detect_circular_dependencies")
    /\ pc' = "Detecting"
    /\ UNCHANGED <<report, explored, other, earlier, files, assemblies, graph, visited,
                   rec_stack, stack, starts, cycle, violations, exit_code>>

\* cycle = detect_circular_dependencies(graph): visited = set()
DetectStart ==
    /\ pc = "GraphBuilt"
    /\ visited' = {}
    /\ next_key' = 1
    /\ stages' = Append(stages, "detect_circular_dependencies")
    /\ pc' = "Detecting"
    /\ UNCHANGED <<report, explored, other, earlier, files, assemblies, graph, rec_stack,
                   stack, starts, cycle, violations, exit_code>>

\* for node in graph: node is in visited already
TopLevelSkip ==
    /\ pc = "Detecting"
    /\ stack = <<>>
    /\ next_key <= Len(graph)
    /\ KeyAt(graph, next_key) \in visited
    /\ next_key' = next_key + 1
    /\ UNCHANGED <<report, explored, other, earlier, files, pc, assemblies, graph, visited,
                   rec_stack, stack, starts, cycle, violations, stages, exit_code>>

TopLevelCall_EmptyPath ==
    /\ pc = "Detecting"
    /\ stack = <<>>
    /\ next_key <= Len(graph)
    /\ KeyAt(graph, next_key) \notin visited
    /\ LET node == KeyAt(graph, next_key)
       IN  /\ visited' = visited \cup {node}
           /\ rec_stack' = {node}
           /\ stack' = <<Frame(node, <<>>)>>
           /\ starts' = Append(starts, node)
           /\ explored' = Append(explored, node)
    /\ next_key' = next_key + 1
    /\ UNCHANGED <<report, other, earlier, files, pc, assemblies, graph, cycle, violations,
                   stages, exit_code>>

\* for node in graph: dfs(node, visited, set(), [node])
TopLevelCall ==
    /\ pc = "Detecting"
    /\ stack = <<>>
    /\ next_key <= Len(graph)
    /\ KeyAt(graph, next_key) \notin visited
    /\ LET node == KeyAt(graph, next_key)
       IN  /\ visited' = visited \cup {node}
           /\ rec_stack' = {node}
           /\ stack' = <<Frame(node, <<node>>)>>
           /\ starts' = Append(starts, node)
           /\ explored' = Append(explored, node)
    /\ next_key' = next_key + 1
    /\ UNCHANGED <<report, other, earlier, files, pc, assemblies, graph, cycle,
                   violations, stages, exit_code>>

DetectNoCycle_FirstStartOnly ==
    /\ pc = "Detecting"
    /\ stack = <<>>
    /\ next_key > 1
    /\ cycle' = NoCycle
    /\ pc' = "CycleChecked"
    /\ UNCHANGED <<report, explored, other, earlier, files, assemblies, graph, visited,
                   rec_stack, stack, next_key, starts, violations, stages, exit_code>>

\* the loop over graph ends: return None
DetectNoCycle ==
    /\ pc = "Detecting"
    /\ stack = <<>>
    /\ next_key > Len(graph)
    /\ cycle' = NoCycle
    /\ pc' = "CycleChecked"
    /\ UNCHANGED <<report, explored, other, earlier, files, assemblies, graph, visited,
                   rec_stack, stack, next_key, starts, violations, stages, exit_code>>

DfsCall_InsertingKey ==
    /\ pc = "Detecting"
    /\ stack # <<>>
    /\ Top.pos <= Len(Neighbors)
    /\ Neighbor \notin visited
    /\ visited' = visited \cup {Neighbor}
    /\ rec_stack' = rec_stack \cup {Neighbor}
    /\ stack' = Append(Advance(stack), Frame(Neighbor, Append(Top.path, Neighbor)))
    /\ explored' = Append(explored, Neighbor)
    /\ graph' = IF Neighbor \in Keys(graph) THEN graph ELSE DictSet(graph, Neighbor, <<>>)
    /\ UNCHANGED <<report, other, earlier, files, pc, assemblies, next_key,
                   starts, cycle, violations, stages, exit_code>>

\* neighbor not in visited: dfs(neighbor, visited, rec_stack, path + [neighbor])
DfsCall ==
    /\ pc = "Detecting"
    /\ stack # <<>>
    /\ Top.pos <= Len(Neighbors)
    /\ Neighbor \notin visited
    /\ visited' = visited \cup {Neighbor}
    /\ rec_stack' = rec_stack \cup {Neighbor}
    /\ stack' = Append(Advance(stack), Frame(Neighbor, Append(Top.path, Neighbor)))
    /\ explored' = Append(explored, Neighbor)
    /\ UNCHANGED <<report, other, earlier, files, pc, assemblies, graph, next_key,
                   starts, cycle, violations, stages, exit_code>>

\* neighbor in visited and in rec_stack: the cycle is returned through every
\* live dfs call ("if cycle: return cycle") and out of the detector.
\* path.index raises ValueError when neighbor is not in path.
DfsFoundCycle ==
    /\ pc = "Detecting"
    /\ stack # <<>>
    /\ Top.pos <= Len(Neighbors)
    /\ Neighbor \in visited
    /\ OnRecStack(Neighbor, rec_stack)
    /\ IF IndexOf(Top.path, Neighbor) # 0
       THEN /\ cycle' = CyclePath(Top.path, Neighbor)
            /\ pc' = "CycleChecked"
            /\ UNCHANGED exit_code
       ELSE /\ pc' = "Raised"
            /\ exit_code' = 1
            /\ UNCHANGED cycle
    /\ stack' = <<>>
    /\ UNCHANGED <<report, explored, other, earlier, files, assemblies, graph, visited,
                   rec_stack, next_key, starts, violations, stages>>

\* neighbor in visited and not in rec_stack: neither branch, next neighbor
DfsSkipEdge ==
    /\ pc = "Detecting"
    /\ stack # <<>>
    /\ Top.pos <= Len(Neighbors)
    /\ Neighbor \in visited
    /\ ~OnRecStack(Neighbor, rec_stack)
    /\ stack' = Advance(stack)
    /\ UNCHANGED <<report, explored, other, earlier, files, pc, assemblies, graph, visited,
                   rec_stack, next_key, starts, cycle, violations, stages, exit_code>>

DfsReturn_Unvisit ==
    /\ pc = "Detecting"
    /\ stack # <<>>
    /\ Top.pos > Len(Neighbors)
    /\ rec_stack' = rec_stack \ {Top.node}
    /\ visited' = visited \ {Top.node}
    /\ stack' = SubSeq(stack, 1, Len(stack) - 1)
    /\ UNCHANGED <<report, explored, other, earlier, files, pc, assemblies, graph, next_key,
                   starts, cycle, violations, stages, exit_code>>

\* the neighbors are exhausted: rec_stack.remove(node); return None
DfsReturn ==
    /\ pc = "Detecting"
    /\ stack # <<>>
    /\ Top.pos > Len(Neighbors)
    /\ rec_stack' = rec_stack \ {Top.node}
    /\ stack' = SubSeq(stack, 1, Len(stack) - 1)
    /\ UNCHANGED <<report, explored, other, earlier, files, pc, assemblies, graph, visited,
                   next_key, starts, cycle, violations, stages, exit_code>>

-----------------------------------------------------------------------------
(* main(): the verdict *)

ReportCycle_NoReturn ==
    /\ pc = "CycleChecked"
    /\ cycle # NoCycle
    /\ violations' = validate_shared_namespace_isolation(graph, assemblies)
    /\ stages' = Append(stages, "validate_shared_namespace_isolation")
    /\ pc' = "IsolationChecked"
    /\ UNCHANGED <<report, explored, other, earlier, files, assemblies, graph, visited,
                   rec_stack, stack, next_key, starts, cycle, exit_code>>

\* if cycle: ... return 1
ReportCycle ==
    /\ pc = "CycleChecked"
    /\ cycle # NoCycle
    /\ exit_code' = 1
    /\ pc' = "Done"
    /\ UNCHANGED <<report, explored, other, earlier, files, assemblies, graph, visited,
                   rec_stack, stack, next_key, starts, cycle, violations, stages>>

\* else: violations = validate_shared_namespace_isolation(graph, assemblies)
CheckIsolation ==
    /\ pc = "CycleChecked"
    /\ cycle = NoCycle
    /\ violations' = validate_shared_namespace_isolation(graph, assemblies)
    /\ stages' = Append(stages, "validate_shared_namespace_isolation")
    /\ pc' = "IsolationChecked"
    /\ UNCHANGED <<report, explored, other, earlier, files, assemblies, graph, visited,
                   rec_stack, stack, next_key, starts, cycle, exit_code>>

ReportIsolation_Inverted ==
    /\ pc = "IsolationChecked"
    /\ exit_code' = IF violations = <<>> THEN 1 ELSE 0
    /\ pc' = "Done"
    /\ UNCHANGED <<report, explored, other, earlier, files, assemblies, graph, visited,
                   rec_stack, stack, next_key, starts, cycle, violations, stages>>

ReportIsolation_AlwaysPass ==
    /\ pc = "IsolationChecked"
    /\ exit_code' = 0
    /\ pc' = "Done"
    /\ UNCHANGED <<report, explored, other, earlier, files, assemblies, graph, visited,
                   rec_stack, stack, next_key, starts, cycle, violations, stages>>

\* if violations: ... return 1, else return 0
ReportIsolation ==
    /\ pc = "IsolationChecked"
    /\ exit_code' = IF violations # <<>> THEN 1 ELSE 0
    /\ pc' = "Done"
    /\ UNCHANGED <<report, explored, other, earlier, files, assemblies, graph, visited,
                   rec_stack, stack, next_key, starts, cycle, violations, stages>>

Next ==
    \/ BuildGraph
    \/ BuildGraphRaises
    \/ DetectStart
    \/ TopLevelSkip
    \/ TopLevelCall
    \/ DetectNoCycle
    \/ DfsCall
    \/ DfsFoundCycle
    \/ DfsSkipEdge
    \/ DfsReturn
    \/ ReportCycle
    \/ CheckIsolation
    \/ ReportIsolation

Spec == Init /\ [][Next]_vars

-----------------------------------------------------------------------------
(* A run followed to its end *)

\* the steps of main() that follow the build of the graph
AfterBuild ==
    \/ DetectStart
    \/ TopLevelSkip
    \/ TopLevelCall
    \/ DetectNoCycle
    \/ DfsCall
    \/ DfsFoundCycle
    \/ DfsSkipEdge
    \/ DfsReturn
    \/ ReportCycle
    \/ CheckIsolation
    \/ ReportIsolation

\* The runs that are followed to their end: every module set over the names
\* A, B, C, with its cycles and self-references, and the single faulty files.
LiveInputs == DistinctInputs(GraphNames) \cup SeqsUpTo(FaultFiles, 1)

InitLive == Init /\ files \in LiveInputs

\* main() is one thread without a suspension point: once the graph is built,
\* a step that can be taken is taken.
SpecLive == InitLive /\ [][Next]_vars /\ WF_vars(AfterBuild)

-----------------------------------------------------------------------------
(* A second invocation *)

\* main() has returned or an exception has left it
Ended == pc \in {"Done", "Raised"}

\* what a run that has ended leaves to compare the next one with
Outcome(kind) ==
    [kind |-> kind, files |-> files, pc |-> pc, assemblies |-> assemblies, graph |-> graph,
     cycle |-> cycle, violations |-> violations, exit_code |-> exit_code]

\* "for file_path in asmdef_files" without the files parse_asmdef rejects
ParsableFiles(fs) == SelectSeq(fs, LAMBDA f : f.json)

\* main() is entered again on fs.  Nothing is handed over: the locals of the
\* run before keep whatever they held and a run must bind each one before
\* it reads it.
Invoke(kind, fs) ==
    /\ Ended
    /\ earlier = <<>>
    /\ earlier' = <<Outcome(kind)>>
    /\ files' = fs
    /\ pc' = "Start"
    /\ exit_code' = NoExit
    /\ starts' = <<>>
    /\ stages' = <<>>
    /\ explored' = <<>>
    /\ UNCHANGED <<report, assemblies, graph, visited, rec_stack, stack, next_key, cycle,
                   violations>>

\* the validator is run again on the same files
RunAgain ==
    /\ Ended
    /\ Invoke("same", files)
    /\ UNCHANGED other

\* the validator is run on the same files less the ones that do not parse
RunWithoutMalformed ==
    /\ ParsableFiles(files) # files
    /\ Invoke("parsable", ParsableFiles(files))
    /\ UNCHANGED other

NextRerun == Next \/ RunAgain \/ RunWithoutMalformed

SpecRerun == Init /\ [][NextRerun]_vars

-----------------------------------------------------------------------------
(* Two runs side by side *)

\* Everything main() and the functions it calls work on is a local of that
\* call: graph and assemblies are created in build_dependency_graph, visited
\* in detect_circular_dependencies, rec_stack and path per top-level dfs
\* call.  The module has no global but the imports.
Locals ==
    [files |-> files, pc |-> pc, assemblies |-> assemblies, graph |-> graph,
     visited |-> visited, rec_stack |-> rec_stack, stack |-> stack, next_key |-> next_key,
     starts |-> starts, cycle |-> cycle, violations |-> violations, stages |-> stages,
     exit_code |-> exit_code, explored |-> explored, report |-> report]

\* a run of main() on fs that has not taken a step
FreshRun(fs) ==
    [files |-> fs, pc |-> "Start", assemblies |-> <<>>, graph |-> <<>>, visited |-> {},
     rec_stack |-> {}, stack |-> <<>>, next_key |-> 1, starts |-> <<>>, cycle |-> NoCycle,
     violations |-> <<>>, stages |-> <<>>, exit_code |-> NoExit, explored |-> <<>>,
     report |-> <<>>]

Resume_SharedVisited(r) ==
    /\ files' = r.files
    /\ pc' = r.pc
    /\ assemblies' = r.assemblies
    /\ graph' = r.graph
    /\ rec_stack' = r.rec_stack
    /\ stack' = r.stack
    /\ next_key' = r.next_key
    /\ starts' = r.starts
    /\ cycle' = r.cycle
    /\ violations' = r.violations
    /\ stages' = r.stages
    /\ exit_code' = r.exit_code
    /\ explored' = r.explored
    /\ report' = r.report
    /\ UNCHANGED visited

\* the run r goes on: its locals are the ones the steps work on
Resume(r) ==
    /\ files' = r.files
    /\ pc' = r.pc
    /\ assemblies' = r.assemblies
    /\ graph' = r.graph
    /\ visited' = r.visited
    /\ rec_stack' = r.rec_stack
    /\ stack' = r.stack
    /\ next_key' = r.next_key
    /\ starts' = r.starts
    /\ cycle' = r.cycle
    /\ violations' = r.violations
    /\ stages' = r.stages
    /\ exit_code' = r.exit_code
    /\ explored' = r.explored
    /\ report' = r.report

\* The manifest sets of the two runs.  Both name their modules A, B, C, so
\* that a mark one run left on a name would be seen by the other.
PairInputs ==
    {<<>>,
     <<Manifest(A, <<A>>)>>,
     <<Manifest(A, <<B>>), Manifest(B, <<A>>)>>,
     <<Manifest(B, <<A>>), Manifest(A, <<B>>)>>,
     <<Manifest(A, <<B, C>>), Manifest(B, <<C>>), Manifest(C, <<>>)>>,
     <<Manifest(C, <<X>>), Manifest(B, <<C>>), Manifest(A, <<C, B>>)>>,
     <<Manifest(A, <<B>>), Manifest(B, <<C>>), Manifest(C, <<A>>)>>,
     <<Manifest(A, <<X>>)>>,
     <<Manifest(B, <<B, A>>), Manifest(A, <<>>)>>,
     <<Manifest(SharedCore, <<FeatureLogin>>), Manifest(FeatureLogin, <<>>)>>,
     <<Manifest(SharedCore, <<A, A>>), Manifest(A, <<SharedCore>>)>>,
     <<Malformed, File(TRUE, TRUE, A, "null", <<>>)>>}

InitPair ==
    /\ files \in PairInputs
    /\ \E fs \in PairInputs : other = <<FreshRun(fs)>>
    /\ pc = "Start"
    /\ assemblies = <<>>
    /\ graph = <<>>
    /\ visited = {}
    /\ rec_stack = {}
    /\ stack = <<>>
    /\ next_key = 1
    /\ starts = <<>>
    /\ cycle = NoCycle
    /\ violations = <<>>
    /\ stages = <<>>
    /\ exit_code = NoExit
    /\ earlier = <<>>
    /\ explored = <<>>
    /\ report = <<>>

\* the scheduler lets the other run take the next steps, at any point
Switch ==
    /\ other # <<>>
    /\ other' = <<Locals>>
    /\ Resume(other[1])
    /\ UNCHANGED earlier

\* both runs have ended; this one is run once more on its files, alone
RunAlone ==
    /\ other # <<>>
    /\ other[1].pc \in {"Done", "Raised"}
    /\ Invoke("interleaved", files)
    /\ other' = <<>>

NextPair == Next \/ Switch \/ RunAlone

SpecPair == InitPair /\ [][NextPair]_vars

-----------------------------------------------------------------------------
(* Vocabulary of the properties: the graph as a mathematical object and    *)
(* the module set as the manifests define it, stated without the           *)
(* operators the actions are built from.                                   *)

AllNames ==
    {A, B, C, X, SharedCore, SharedUi, FeatureLogin, UnityMath, UnityShared, VendorUnity,
     EmptyName}

S_build == "build_dependency_graph"

S_detect == "detect_circular_dependencies"

S_isolate == "validate_shared_namespace_isolation"

GraphIsBuilt == pc \notin {"Start", "Raised"}

AfterDetect == pc \in {"CycleChecked", "IsolationChecked", "Done"}

IsolationRan == S_isolate \in Range(stages)

\* detection ended in an exception instead of a result
DetectRaised == pc = "Raised" /\ S_detect \in Range(stages)

\* the edges of a graph, as a set of pairs
Edges(g) == UNION {{<<g[i].key, g[i].val[j]>> : j \in 1..Len(g[i].val)} : i \in 1..Len(g)}

GraphNodes(g) == {e[1] : e \in Edges(g)} \cup {e[2] : e \in Edges(g)}

Successors(g, S) == {e[2] : e \in {d \in Edges(g) : d[1] \in S}}

RECURSIVE Closure(_, _)
Closure(g, S) ==
    LET T == S \cup Successors(g, S) IN IF T = S THEN S ELSE Closure(g, T)

\* b is reached from a along one edge or more
Reaches(g, a, b) == b \in Closure(g, Successors(g, {a}))

OnCycle(g, n) == Reaches(g, n, n)

HasCycle(g) == \E n \in GraphNodes(g) : OnCycle(g, n)

ReachesCycle(g, n) == OnCycle(g, n) \/ \E m \in GraphNodes(g) : Reaches(g, n, m) /\ OnCycle(g, m)

\* the closed walks over pairwise distinct nodes, and the simple cycles as
\* edge sets (one per cycle, whichever node the walk starts from)
IsSimpleCycleWalk(g, s) ==
    /\ Len(s) >= 1
    /\ \A i, j \in 1..Len(s) : s[i] = s[j] => i = j
    /\ \A i \in 1..Len(s) : <<s[i], s[(i % Len(s)) + 1]>> \in Edges(g)

WalkEdges(s) == {<<s[i], s[(i % Len(s)) + 1]>> : i \in 1..Len(s)}

SimpleCycleWalks(g) ==
    {s \in SeqsUpTo(GraphNodes(g), Cardinality(GraphNodes(g))) : IsSimpleCycleWalk(g, s)}

SimpleCycles(g) == {WalkEdges(s) : s \in SimpleCycleWalks(g)}

\* the classification the isolation rule names, on the names of the universe
SharedNames == {SharedCore, SharedUi, UnityShared}

\* the names that begin with "Unity." and the names that hold it anywhere
PlatformPrefixed == {UnityMath, UnityShared}

PlatformMarked == {UnityMath, UnityShared, VendorUnity}

FeatureNames == AllNames \ (SharedNames \cup PlatformMarked)

\* positions (key, reference) of the graph that hold a shared -> feature edge
SharedToFeatureSlots(g) ==
    UNION {{<<i, j>> : j \in {k \in 1..Len(g[i].val) :
                                  g[i].key \in SharedNames /\ g[i].val[k] \in FeatureNames}} :
           i \in 1..Len(g)}

SharedToFeatureEdges(g) == {e \in Edges(g) : e[1] \in SharedNames /\ e[2] \in FeatureNames}

\* the module set read off the files: a parsed file defines the module of its
\* name, the last such file wins
Parsed == {i \in 1..Len(files) : files[i].json}

NameAt(i) == IF files[i].has_name THEN files[i].name ELSE EmptyName

ModuleNames == {NameAt(i) : i \in Parsed}

LastFileOf(n) == CHOOSE i \in Parsed : NameAt(i) = n /\ \A j \in Parsed : NameAt(j) = n => j <= i

FirstFileOf(n) == CHOOSE i \in Parsed : NameAt(i) = n /\ \A j \in Parsed : NameAt(j) = n => j >= i

Declares(m, r) ==
    /\ m \in ModuleNames
    /\ files[LastFileOf(m)].refs_tag = "list"
    /\ r \in Range(files[LastFileOf(m)].refs)

NameBefore(a, b) == IndexOf(SortedNames, a) < IndexOf(SortedNames, b)

Last(s) == s[Len(s)]

-----------------------------------------------------------------------------
(* Properties *)

\* C1 (as claimed): every run that ends has run the isolation check too,
\* also when cycle detection found a cycle, and holds its violations.
C1_BothChecksAlwaysRun ==
    pc = "Done" =>
        /\ IsolationRan
        /\ Len(violations) = Cardinality(SharedToFeatureSlots(graph))

\* C1 (amended): build and cycle detection run in every run that ends with
\* a verdict; the isolation check runs exactly when no cycle was found.  A
\* run that found a cycle ends with exit code 1 and no violation collected.
C1_IsolationOnlyWithoutCycle ==
    pc = "Done" =>
        /\ stages = IF cycle = NoCycle THEN <<S_build, S_detect, S_isolate>>
                    ELSE <<S_build, S_detect>>
        /\ cycle # NoCycle => violations = <<>> /\ exit_code = 1

\* a run ended on a cycle while the graph holds a shared -> feature edge
C1_Witness ==
    /\ pc = "Done"
    /\ cycle # NoCycle
    /\ SharedToFeatureSlots(graph) # {}
    /\ ~IsolationRan

\* C2: the exit code is 0 or 1, and it is 1 exactly when the graph has a
\* cycle or a shared -> feature edge.
C2_VerdictPolicy ==
    pc = "Done" =>
        /\ exit_code \in {0, 1}
        /\ exit_code # 0 <=> (HasCycle(graph) \/ SharedToFeatureEdges(graph) # {})

\* a run that fails on an isolation violation alone
C2_Witness ==
    /\ pc = "Done"
    /\ exit_code = 1
    /\ ~HasCycle(graph)
    /\ SharedToFeatureEdges(graph) = {<<SharedCore, FeatureLogin>>}

\* C3: a graph with a cycle makes the detector return one; when it returns
\* "no cycle" every node of the graph has been explored.
C3_CycleIsFound ==
    AfterDetect =>
        /\ HasCycle(graph) => cycle # NoCycle
        /\ cycle = NoCycle => visited = GraphNodes(graph) /\ rec_stack = {}

\* the cycle is found from a later start node: the first search met none
C3_Witness ==
    /\ AfterDetect
    /\ cycle # NoCycle
    /\ Len(starts) >= 2
    /\ ~ReachesCycle(graph, starts[1])

\* C4: on an acyclic graph the detector returns, and returns "no cycle".
C4_AcyclicIsClean ==
    ~HasCycle(graph) =>
        /\ ~DetectRaised
        /\ AfterDetect => cycle = NoCycle

\* an acyclic graph with a node that two different nodes lead to
C4_Witness ==
    /\ AfterDetect
    /\ cycle = NoCycle
    /\ \E e, d \in Edges(graph) : e[2] = d[2] /\ e[1] # d[1] /\ Reaches(graph, e[1], d[1])

\* C5: a returned cycle has two entries or more, ends where it starts, and
\* each entry has an edge to the next one.
C5_CycleShape ==
    cycle # NoCycle =>
        /\ Len(cycle) >= 2
        /\ cycle[1] = Last(cycle)
        /\ \A i \in 1..(Len(cycle) - 1) : <<cycle[i], cycle[i + 1]>> \in Edges(graph)

\* a cycle that leaves out the start node of the search that found it
C5_Witness ==
    /\ cycle # NoCycle
    /\ Len(cycle) >= 3
    /\ Last(starts) \notin Range(cycle)

\* C6: the graph holds the edge (m, r) exactly when the module m declares r
\* and r names a module; a name that no manifest defines occurs in no
\* edge, no cycle and no violation.
C6_EdgesAreKnownReferences ==
    GraphIsBuilt =>
        /\ Edges(graph) = {e \in ModuleNames \X ModuleNames : Declares(e[1], e[2])}
        /\ GraphNodes(graph) \subseteq ModuleNames
        /\ Range(cycle) \subseteq ModuleNames
        /\ \A k \in 1..Len(violations) :
              violations[k][1] \in ModuleNames /\ violations[k][2] \in ModuleNames

\* a module that references only an undeclared name passes with no edge
C6_Witness ==
    /\ pc = "Done"
    /\ exit_code = 0
    /\ \E m \in ModuleNames : Declares(m, X) /\ X \notin ModuleNames
    /\ \E m \in ModuleNames : Declares(m, A) /\ <<m, A>> \in Edges(graph)

\* C7: the isolation check returns one entry per shared -> feature edge of
\* the graph, each naming its edge, and nothing else: on every built graph
\* (with or without a cycle), and so in the list main() receives from it.
C7_OneViolationPerEdge ==
    GraphIsBuilt =>
        LET returned == validate_shared_namespace_isolation(graph, assemblies)
        IN  /\ Len(returned) = Cardinality(SharedToFeatureSlots(graph))
            /\ Range(returned) = SharedToFeatureEdges(graph)
            /\ IsolationRan => violations = returned

\* two different violations next to an edge that is none
C7_Witness ==
    /\ IsolationRan
    /\ Cardinality(Range(violations)) >= 2
    /\ \E e \in Edges(graph) : e[1] \in SharedNames /\ e[2] \notin FeatureNames

\* the first key of the graph, in insertion order, that leads into a cycle
FirstKeyIntoCycle ==
    KeyAt(graph, CHOOSE i \in 1..Len(graph) :
        /\ ReachesCycle(graph, graph[i].key)
        /\ \A j \in 1..(i - 1) : ~ReachesCycle(graph, graph[j].key))

\* the least key of the graph, in ascending order of the names, that leads
\* into a cycle
LeastKeyIntoCycle ==
    CHOOSE n \in Keys(graph) :
        /\ ReachesCycle(graph, n)
        /\ \A m \in Keys(graph) : ReachesCycle(graph, m) => (m = n \/ NameBefore(n, m))

\* C8 (as claimed): the searches start from the names in ascending order
\* and the reported cycle is the one the first name leading into a cycle
\* finds, whatever the load order.
C8_SortedStartOrder ==
    AfterDetect =>
        /\ \A i, j \in 1..Len(starts) : i < j => NameBefore(starts[i], starts[j])
        /\ cycle # NoCycle => Last(starts) = LeastKeyIntoCycle

\* C8 (amended): the searches start from the keys of the graph in insertion
\* order, which is the order in which the manifests first named them, and
\* the reported cycle is found by the search from the first key, in that
\* order, that leads into a cycle.
C8_InsertionStartOrder ==
    /\ GraphIsBuilt =>
          \A i, j \in 1..Len(graph) :
              i < j => FirstFileOf(graph[i].key) < FirstFileOf(graph[j].key)
    /\ \A i, j \in 1..Len(starts) :
          i < j => KeyPos(graph, starts[i]) < KeyPos(graph, starts[j])
    /\ AfterDetect /\ cycle # NoCycle =>
          /\ Last(starts) = FirstKeyIntoCycle
          /\ Reaches(graph, Last(starts), cycle[1]) \/ Last(starts) = cycle[1]

\* a cycle reported from a start node that is not the least name leading
\* into a cycle
C8_Witness ==
    /\ AfterDetect
    /\ cycle # NoCycle
    /\ Last(starts) # LeastKeyIntoCycle

\* the module set {A: [B], B: [C], C: [A]}, in any load order
ScenarioA ==
    /\ GraphIsBuilt
    /\ Len(files) = 3
    /\ {files[i] : i \in 1..3} = {Manifest(A, <<B>>), Manifest(B, <<C>>), Manifest(C, <<A>>)}

\* C9 (as claimed): the module set of scenario A reports [A, B, C, A] and
\* fails.
C9_ScenarioA ==
    ScenarioA /\ pc = "Done" => cycle = <<A, B, C, A>> /\ exit_code = 1

\* C9 (amended): the module set of scenario A fails in every load order and
\* reports the cycle from the module loaded first: [A, B, C, A] when the
\* manifest of A is loaded first, [B, C, A, B] or [C, A, B, C] otherwise.
C9_ScenarioAFromFirstLoaded ==
    ScenarioA /\ pc = "Done" =>
        /\ exit_code = 1
        /\ files[1].name = A => cycle = <<A, B, C, A>>
        /\ files[1].name = B => cycle = <<B, C, A, B>>
        /\ files[1].name = C => cycle = <<C, A, B, C>>

\* scenario A loaded with A first ends with [A, B, C, A]
C9_Witness ==
    /\ ScenarioA
    /\ pc = "Done"
    /\ files[1].name = A
    /\ cycle = <<A, B, C, A>>

\* C10: on a graph with exactly one simple cycle, of k modules, the
\* detector returns k + 1 entries, the first equal to the last.
C10_SingleCycleLength ==
    AfterDetect /\ Cardinality(SimpleCycles(graph)) = 1 =>
        /\ cycle # NoCycle
        /\ \A cyc \in SimpleCycles(graph) : Len(cycle) = Cardinality(cyc) + 1
        /\ cycle[1] = Last(cycle)

\* the only cycle has two modules and is entered from a module outside it
C10_Witness ==
    /\ AfterDetect
    /\ Cardinality(SimpleCycles(graph)) = 1
    /\ Len(cycle) = 3
    /\ Last(starts) \notin Range(cycle)

\* C11: the stages run in the order build, cycle detection, isolation
\* check, none of them twice; detection starts on the built graph, the
\* isolation check after detection has returned, and both work on the
\* graph and the module set the build stage made of the files.
C11_FixedStageOrder ==
    /\ \E k \in 0..3 : stages = SubSeq(<<S_build, S_detect, S_isolate>>, 1, k)
    /\ pc = "Start" => stages = <<>>
    /\ pc = "GraphBuilt" => stages = <<S_build>>
    /\ pc \in {"Detecting", "CycleChecked"} => stages = <<S_build, S_detect>>
    /\ pc = "IsolationChecked" => stages = <<S_build, S_detect, S_isolate>>
    /\ pc = "Done" => Len(stages) >= 2
    /\ IsolationRan => pc \in {"IsolationChecked", "Done"} /\ stack = <<>>
    /\ S_detect \in Range(stages) =>
          /\ assemblies = CollectAssemblies(files, <<>>)
          /\ graph = BuildEdges(assemblies, 1, <<>>)

\* a run through all three stages on a graph with edges
C11_Witness ==
    /\ pc = "Done"
    /\ stages = <<S_build, S_detect, S_isolate>>
    /\ Len(graph) >= 2

\* the run before this one
Before == earlier[1]

SameOutcomeAsBefore ==
    /\ pc = Before.pc
    /\ assemblies = Before.assemblies
    /\ graph = Before.graph
    /\ cycle = Before.cycle
    /\ violations = Before.violations
    /\ exit_code = Before.exit_code

\* C12: a file that does not parse defines no module and never ends the
\* run; a run on the parsable files alone ends with the same module set,
\* graph, cycle, violations and exit code.
C12_MalformedIsExcluded ==
    /\ GraphIsBuilt => Keys(assemblies) = ModuleNames
    /\ pc = "Raised" => \E i \in Parsed : files[i].refs_tag = "null"
    /\ earlier # <<>> /\ Ended =>
          (Before.kind = "parsable" => SameOutcomeAsBefore)

\* a run on two manifests ended like the run before it, which had read a
\* malformed file along with them
C12_Witness ==
    /\ earlier # <<>>
    /\ Before.kind = "parsable"
    /\ pc = "Done"
    /\ Len(files) = 2
    /\ Len(Before.files) = 3
    /\ graph # <<>>
    /\ SameOutcomeAsBefore

\* some file parses and has no "name"
NamelessParsed == \E i \in Parsed : ~files[i].has_name

\* C13 (as claimed): a parsed manifest without a name ends the run: no
\* module stands for it in the module set or the graph and the run does
\* not pass.
C13_MissingNameAborts ==
    NamelessParsed =>
        /\ EmptyName \notin Keys(assemblies)
        /\ EmptyName \notin GraphNodes(graph)
        /\ exit_code # 0

\* C13 (amended): a parsed manifest without a name does not end the run.
\* It defines the module named '' (the default of parse_asmdef), which is
\* in the module set with the references of the last such manifest and in
\* the graph with those of them that name a module, and the run goes on
\* to its verdict, which may be pass.
C13_MissingNameIsEmptyName ==
    NamelessParsed =>
        /\ pc = "Raised" => \E i \in Parsed : files[i].refs_tag = "null"
        /\ GraphIsBuilt =>
              /\ EmptyName \in Keys(assemblies)
              /\ DictGet(assemblies, EmptyName).references = files[LastFileOf(EmptyName)].refs
              /\ \A r \in AllNames :
                    <<EmptyName, r>> \in Edges(graph) <=>
                        (Declares(EmptyName, r) /\ r \in ModuleNames)

\* a run with a nameless manifest that passes, with an edge from ''
C13_Witness ==
    /\ NamelessParsed
    /\ pc = "Done"
    /\ exit_code = 0
    /\ <<EmptyName, A>> \in Edges(graph)

\* C14: on parsed manifests, whatever their references field holds, no
\* stage raises and the run ends with a verdict.
C14_NeverRaises ==
    /\ pc # "Raised"
    /\ exit_code # NoExit => pc = "Done"

\* C15: a second run on the same files builds the same module set and
\* graph, finds the same cycle, collects the same violations and ends
\* with the same exit code as the first.
C15_SameInputSameOutcome ==
    earlier # <<>> /\ Before.kind = "same" =>
        /\ files = Before.files
        /\ GraphIsBuilt => assemblies = Before.assemblies /\ graph = Before.graph
        /\ AfterDetect => cycle = Before.cycle
        /\ IsolationRan => violations = Before.violations
        /\ Ended => SameOutcomeAsBefore

\* a second run that ended on the cycle the first one reported, having
\* started more than one search
C15_Witness ==
    /\ earlier # <<>>
    /\ Before.kind = "same"
    /\ pc = "Done"
    /\ cycle # NoCycle
    /\ Len(starts) >= 2
    /\ SameOutcomeAsBefore

\* C16 (as claimed): a module is shared when its name contains "Shared",
\* feature when its name neither contains "Shared" nor begins with
\* "Unity.", and the violations are the shared -> feature edges so defined.
C16_PrefixClassification ==
    GraphIsBuilt =>
        /\ Range(shared_assemblies(assemblies)) = Keys(assemblies) \cap SharedNames
        /\ Range(feature_assemblies(assemblies)) =
              Keys(assemblies) \ (SharedNames \cup PlatformPrefixed)
        /\ IsolationRan =>
              Range(violations) =
                  {e \in Edges(graph) :
                      e[1] \in SharedNames /\ e[2] \notin (SharedNames \cup PlatformPrefixed)}

\* C16 (amended): a module is shared when its name contains "Shared";
\* feature when its name contains neither "Shared" nor, at any position,
\* "Unity."; external otherwise.  The groups are disjoint and cover the
\* module set.
C16_SubstringClassification ==
    GraphIsBuilt =>
        LET shared == Range(shared_assemblies(assemblies))
            feature == Range(feature_assemblies(assemblies))
            external == Keys(assemblies) \ (shared \cup feature)
        IN  /\ shared = Keys(assemblies) \cap SharedNames
            /\ feature = Keys(assemblies) \cap FeatureNames
            /\ external = Keys(assemblies) \cap (PlatformMarked \ SharedNames)
            /\ shared \cap feature = {}
            /\ IsolationRan => Range(violations) = SharedToFeatureEdges(graph)

\* a shared module references a module with "Unity." inside its name and
\* the isolation check reports nothing
C16_Witness ==
    /\ IsolationRan
    /\ <<SharedCore, VendorUnity>> \in Edges(graph)
    /\ violations = <<>>

\* how many times x occurs in s
Occurrences(s, x) == Cardinality({i \in 1..Len(s) : s[i] = x})

\* C17 (as claimed): no name occurs twice among the dependencies of a
\* module, and every key and every target of the graph is a module.
C17_DependencySets ==
    GraphIsBuilt =>
        /\ \A i \in 1..Len(graph) : \A r \in AllNames : Occurrences(graph[i].val, r) <= 1
        /\ GraphNodes(graph) \subseteq ModuleNames

\* C17 (amended): each key of the graph maps to a list that holds a module
\* name as many times as the manifest of the key declares it; every key
\* occurs once and every key and every target is a module.
C17_DependencyLists ==
    GraphIsBuilt =>
        /\ \A i, j \in 1..Len(graph) : graph[i].key = graph[j].key => i = j
        /\ \A i \in 1..Len(graph) : \A r \in ModuleNames :
              Occurrences(graph[i].val, r) =
                  Occurrences(files[LastFileOf(graph[i].key)].refs, r)
        /\ GraphNodes(graph) \subseteq ModuleNames

\* a module depends twice on the same module
C17_Witness ==
    /\ pc = "Done"
    /\ \E i \in 1..Len(graph) : Occurrences(graph[i].val, B) = 2

\* the references the last parsed manifest named n lists
LastRefsOf(n) ==
    IF files[LastFileOf(n)].refs_tag = "list" THEN files[LastFileOf(n)].refs ELSE <<>>

IsModuleName(r) == r \in ModuleNames

\* C18: of several manifests with one name the last loaded is the module:
\* the module set has one entry of that name, with its references, and
\* the edges out of that name are the last manifest's references to
\* modules, in their order.
C18_LastManifestWins ==
    GraphIsBuilt =>
        /\ \A i, j \in 1..Len(assemblies) : assemblies[i].key = assemblies[j].key => i = j
        /\ \A n \in ModuleNames :
              /\ DictGet(assemblies, n).references = LastRefsOf(n)
              /\ DictGet(graph, n) = SelectSeq(LastRefsOf(n), IsModuleName)

\* a name is defined twice; the first manifest references the module A
\* and the second does not, and the graph has no edge from the name to A
C18_Witness ==
    /\ pc = "Done"
    /\ \E i, j \in Parsed :
          /\ i < j
          /\ NameAt(i) = NameAt(j)
          /\ j = LastFileOf(NameAt(j))
          /\ A \in Range(files[i].refs)
          /\ A \in ModuleNames
          /\ <<NameAt(j), A>> \notin Edges(graph)

\* C19: once the build has returned, no step changes the graph or the
\* module set.
C19_GraphIsImmutable ==
    [][pc # "Start" => graph' = graph /\ assemblies' = assemblies]_vars

\* both checks have looked up a module with no outgoing edges: the search
\* explored it and the isolation check read the references of a shared
\* one; the graph is still the one the build made, without that key
C19_Witness ==
    /\ pc = "Done"
    /\ IsolationRan
    /\ \E n \in visited \cap SharedNames : n \notin Keys(graph)
    /\ graph = BuildEdges(assemblies, 1, <<>>)

\* C20: with no module (no file, or none that parses) the graph is empty,
\* no search is started, "no cycle" is returned, the isolation check
\* returns no violation and the run passes.
C20_EmptyModuleSet ==
    ModuleNames = {} =>
        /\ pc # "Raised"
        /\ GraphIsBuilt => assemblies = <<>> /\ graph = <<>>
        /\ AfterDetect => cycle = NoCycle /\ starts = <<>>
        /\ pc = "Done" => IsolationRan /\ violations = <<>> /\ exit_code = 0

\* the run on no file at all has passed
C20_Witness ==
    /\ files = <<>>
    /\ pc = "Done"
    /\ exit_code = 0

\* C21: two runs on manifest sets of their own, their steps interleaved in
\* any way, each end with the graph, cycle, violations and exit code that
\* the run on the same files ends with when it runs alone; the steps of a
\* run leave the locals of the other run as they were.
C21_InterleavedAsAlone ==
    /\ earlier # <<>> /\ Before.kind = "interleaved" /\ Ended => SameOutcomeAsBefore
    /\ other # <<>> /\ GraphIsBuilt =>
          /\ assemblies = CollectAssemblies(files, <<>>)
          /\ graph = BuildEdges(assemblies, 1, <<>>)
    /\ other # <<>> /\ other[1].pc \notin {"Start", "Raised"} =>
          /\ other[1].assemblies = CollectAssemblies(other[1].files, <<>>)
          /\ other[1].graph = BuildEdges(other[1].assemblies, 1, <<>>)

\* a run alone ended on the cycle it had reported when its searches were
\* interleaved with those of another run on the same names
C21_Witness ==
    /\ earlier # <<>>
    /\ Before.kind = "interleaved"
    /\ pc = "Done"
    /\ cycle = <<A, B, A>>
    /\ Before.cycle = <<A, B, A>>
    /\ SameOutcomeAsBefore

\* no entry of s occurs twice
NoRepeat(s) == \A i, j \in 1..Len(s) : s[i] = s[j] => i = j

\* C22: once the module set is loaded into the graph, with or without
\* cycles and self-references, cycle detection returns and the run ends
\* with a verdict; dfs is called on no node twice, so the calls are no
\* more than the modules.
C22_RunEndsWithVerdict ==
    /\ (pc = "Detecting") ~> AfterDetect
    /\ GraphIsBuilt ~> (pc = "Done" /\ exit_code \in {0, 1})
    /\ [](NoRepeat(explored) /\ Len(explored) <= Cardinality(ModuleNames))

\* a run on a graph with a self-reference and a cycle of three modules has
\* ended with a verdict
C22_Witness ==
    /\ pc = "Done"
    /\ \E n \in GraphNodes(graph) : <<n, n>> \in Edges(graph)
    /\ \E cyc \in SimpleCycles(graph) : Cardinality(cyc) = 3

\* a dfs call begins in this step, on the node n
Begins(n) == explored' = Append(explored, n)

\* the running dfs call ends in this step without a cycle
EndsWithoutCycle == pc = "Detecting" /\ pc' = "Detecting" /\ Len(stack') = Len(stack) - 1

\* the running dfs call looks at an edge to a visited node that is not on
\* the stack
AtFinishedNeighbor ==
    /\ pc = "Detecting"
    /\ stack # <<>>
    /\ Top.pos <= Len(Neighbors)
    /\ Neighbor \in visited \ rec_stack

\* C23: a node enters visited and the on-stack set when its exploration
\* begins; when its exploration ends without a cycle it leaves the on-stack
\* set and stays in visited; an edge to a visited node that is not on the
\* stack is passed over; so no node is explored twice in a run, whatever
\* the start nodes.
C23_VisitedAndOnStack ==
    /\ [](/\ rec_stack \subseteq visited
          /\ S_detect \in Range(stages) => Range(explored) = visited
          /\ NoRepeat(explored))
    /\ [][/\ \A n \in AllNames :
                Begins(n) => n \notin visited /\ n \in visited' /\ n \in rec_stack'
          /\ EndsWithoutCycle =>
                /\ rec_stack' = rec_stack \ {Top.node}
                /\ visited' = visited
                /\ Top.node \in visited'
          /\ AtFinishedNeighbor =>
                /\ stack' = Advance(stack)
                /\ UNCHANGED <<explored, visited, rec_stack, cycle, pc>>]_vars

\* the search from a second start node has passed over an edge to a node
\* that the first search explored
C23_Witness ==
    /\ pc = "Detecting"
    /\ Len(starts) = 2
    /\ stack # <<>>
    /\ Top.pos > 1
    /\ Neighbors[Top.pos - 1] \in visited \ rec_stack
    /\ IndexOf(explored, Neighbors[Top.pos - 1]) < IndexOf(explored, Top.node)

\* the references of n that name a module, in the order of its manifest
KnownRefsOf(n) == SelectSeq(LastRefsOf(n), IsModuleName)

\* the first of the stored references of c that leads back to c
FirstRefBackTo(c) ==
    LET refs == DictGet(graph, c)
        back == {k \in 1..Len(refs) : refs[k] = c \/ Reaches(graph, refs[k], c)}
    IN  refs[CHOOSE k \in back : \A j \in back : k <= j]

\* the position in its list of the reference the i-th live dfs call is at:
\* the running call is about to look at it, its callers have called dfs on it
RefAt(i) == IF i = Len(stack) THEN stack[i].pos ELSE stack[i].pos - 1

\* detect_circular_dependencies returns a cycle in this step
FindsCycle == pc = "Detecting" /\ pc' = "CycleChecked" /\ cycle' # NoCycle

\* C24: the graph holds the references of a module that name a module in
\* the order of its manifest; each dfs call looks at them from the first
\* on, one by one; so a reported cycle leaves its first node through the
\* earliest of that node's references that leads back to it, and every
\* reference that a call on the path had passed before led into no cycle.
C24_DeclaredOrder ==
    /\ [](GraphIsBuilt => \A n \in ModuleNames : DictGet(graph, n) = KnownRefsOf(n))
    /\ [](pc = "Detecting" =>
            \A i \in 1..Len(stack) :
                /\ RefAt(i) \in 1..(Len(KnownRefsOf(stack[i].node)) + 1)
                /\ i < Len(stack) => stack[i + 1].node = KnownRefsOf(stack[i].node)[RefAt(i)])
    /\ [](AfterDetect /\ cycle # NoCycle => cycle[2] = FirstRefBackTo(cycle[1]))
    /\ [][/\ pc = "Detecting" /\ pc' = "Detecting" =>
                \A i \in 1..Len(stack) :
                    /\ i <= Len(stack') => stack'[i].pos \in {stack[i].pos, stack[i].pos + 1}
                    /\ Len(stack') > Len(stack) => Last(stack').pos = 1
          /\ FindsCycle =>
                /\ Last(cycle') = KnownRefsOf(Top.node)[RefAt(Len(stack))]
                /\ \A i \in 1..Len(stack) : \A j \in 1..RefAt(i) :
                      ReachesCycle(graph, KnownRefsOf(stack[i].node)[j]) <=> j = RefAt(i)]_vars

\* A lists C before B and both lead back to A: the cycle through C is the
\* one reported
C24_Witness ==
    /\ pc = "Done"
    /\ DictGet(graph, A) = <<C, B>>
    /\ <<B, A>> \in Edges(graph)
    /\ cycle = <<A, C, A>>

\* C25: while a dfs call runs, the on-stack set is the set of the nodes of
\* its path; the path begins at the start node of the search, ends at the
\* node of the call, repeats no node and follows edges of the graph, and
\* the path of each live call is the path of its caller and its own node.
\* A neighbor found on the stack is in the path, so path.index finds it
\* and detection never ends in an exception.
C25_PathIsTheStack ==
    /\ pc = "Detecting" /\ stack # <<>> =>
          /\ rec_stack = Range(Top.path)
          /\ Top.path[1] = Last(starts)
          /\ Last(Top.path) = Top.node
          /\ NoRepeat(Top.path)
          /\ \A i \in 1..(Len(Top.path) - 1) : <<Top.path[i], Top.path[i + 1]>> \in Edges(graph)
          /\ \A i \in 1..Len(stack) : stack[i].path = SubSeq(Top.path, 1, i)
          /\ Top.pos <= Len(Neighbors) /\ Neighbor \in rec_stack =>
                /\ IndexOf(Top.path, Neighbor) \in 1..Len(Top.path)
                /\ Top.path[IndexOf(Top.path, Neighbor)] = Neighbor
    /\ ~DetectRaised

\* the call on the third node of a path looks at an edge to the second one
C25_Witness ==
    /\ pc = "Detecting"
    /\ stack # <<>>
    /\ Len(Top.path) = 3
    /\ Top.pos <= Len(Neighbors)
    /\ Neighbor \in rec_stack
    /\ IndexOf(Top.path, Neighbor) = 2

\* C26: a returned cycle repeats its first entry as its last and no other:
\* it has two entries or more and never more than the modules and one.
C26_CycleIsSimple ==
    cycle # NoCycle =>
        /\ Len(cycle) >= 2
        /\ cycle[1] = Last(cycle)
        /\ NoRepeat(SubSeq(cycle, 1, Len(cycle) - 1))
        /\ Len(cycle) <= Cardinality(ModuleNames) + 1

\* a cycle through every one of three modules
C26_Witness ==
    /\ AfterDetect
    /\ Cardinality(ModuleNames) = 3
    /\ Len(cycle) = 4

\* the position of the first reference to itself among the stored
\* references of m
SelfRefAt(m) == IndexOf(DictGet(graph, m), m)

\* C27: a module that lists its own name has an edge to itself in the
\* graph and the run fails on a cycle; once dfs has been called on the
\* module, and none of the references it lists before its own name leads
\* into a cycle, the cycle reported is [M, M].
C27_SelfReference ==
    \A m \in ModuleNames :
        Declares(m, m) /\ GraphIsBuilt =>
            /\ <<m, m>> \in Edges(graph)
            /\ AfterDetect => cycle # NoCycle
            /\ pc = "Done" => exit_code = 1
            /\ (/\ AfterDetect
                /\ m \in Range(explored)
                /\ \A j \in 1..(SelfRefAt(m) - 1) : ~ReachesCycle(graph, DictGet(graph, m)[j]))
               => cycle = <<m, m>>

\* the search from A came to B, which lists C and then itself, and the run
\* failed on [B, B]
C27_Witness ==
    /\ pc = "Done"
    /\ exit_code = 1
    /\ starts = <<A>>
    /\ DictGet(graph, B) = <<C, B>>
    /\ cycle = <<B, B>>

\* C28: no module is in both groups; a module whose name contains "Shared"
\* is in the shared group, also when the name contains "Unity.", and an
\* edge from it to a feature module is reported; no reported violation
\* points at a module whose name contains "Shared" or "Unity.".
C28_GroupsAreDisjoint ==
    GraphIsBuilt =>
        LET shared == Range(shared_assemblies(assemblies))
            feature == Range(feature_assemblies(assemblies))
            returned == validate_shared_namespace_isolation(graph, assemblies)
        IN  /\ shared \cap feature = {}
            /\ shared = ModuleNames \cap SharedNames
            /\ feature \cap PlatformMarked = {}
            /\ \A k \in 1..Len(returned) :
                  /\ returned[k][1] \in SharedNames
                  /\ returned[k][2] \notin SharedNames \cup PlatformMarked
            /\ \A e \in SharedToFeatureEdges(graph) : e \in Range(returned)
            /\ IsolationRan => violations = returned

\* a module named with both markers references a feature module and a
\* platform module: the one violation is its edge to the feature module
C28_Witness ==
    /\ IsolationRan
    /\ DictGet(graph, UnityShared) = <<FeatureLogin, UnityMath>>
    /\ violations = <<(<<UnityShared, FeatureLogin>>)>>

\* C29: the keys of the graph are the modules that list a module among
\* their references.  A module that lists none is no key and no search
\* starts from it; the list main() prints names every module once, in
\* ascending order, with the number of its references to modules, which
\* is 0 for such a module.
C29_KeysHaveKnownReferences ==
    GraphIsBuilt =>
        /\ Keys(graph) = {m \in ModuleNames : \E r \in ModuleNames : Declares(m, r)}
        /\ \A i \in 1..Len(graph) : graph[i].val # <<>>
        /\ Range(starts) \subseteq Keys(graph)
        /\ Len(report) = Cardinality(ModuleNames)
        /\ \A i, j \in 1..Len(report) : i < j => NameBefore(report[i][1], report[j][1])
        /\ \A m \in ModuleNames :
              /\ <<m, Len(KnownRefsOf(m))>> \in Range(report)
              /\ m \notin Keys(graph) => <<m, 0>> \in Range(report)

\* a module that lists no module was explored as a neighbor, is no key,
\* started no search and was printed with 0 dependencies
C29_Witness ==
    /\ pc = "Done"
    /\ \E m \in ModuleNames \ Keys(graph) :
          /\ m \in visited
          /\ m \notin Range(starts)
          /\ Declares(m, X)
          /\ <<m, 0>> \in Range(report)

=============================================================================
